---- MODULE Spec2Model ----
(***************************************************************************)
(* Model of app.py: the wind rose generator.                               *)
(*                                                                         *)
(* A request is one run of the Streamlit script after the button press:   *)
(* process_csv_data over the uploaded files, the "no valid data" check,   *)
(* plot_combined_wind_roses, then plot_single_wind_rose once per speed    *)
(* range.                                                                  *)
(*                                                                         *)
(* Numbers.  A raw wind cell written with a decimal comma ("3,7") is held  *)
(* as its value in tenths (37).  A wind speed of the dataset is held in    *)
(* millionths of a knot, so that n tenths of m/s times 1.94384 is the      *)
(* integer n * 194384 and the product is exact.  The double product of the *)
(* code differs from the exact one by one rounding (relative 1e-16); no    *)
(* speed of the input sets is that close to a band limit, so the masks of  *)
(* the model and of the code agree.                                        *)
(*                                                                         *)
(* Columns.  read_csv types a column by its cells: a column whose cells    *)
(* are all empty or plain numbers ("90") is numeric, and the .str accessor *)
(* of lines 34 and 37 raises AttributeError on it; a column with any other *)
(* text in it is an object column of strings.                              *)
(***************************************************************************)
EXTENDS Integers, Sequences, FiniteSets

VARIABLES uploaded_files, pc, error, combined_data, invalid_files,
          panels, singles, out

vars == <<uploaded_files, pc, error, combined_data, invalid_files,
          panels, singles, out>>

(* ------------------------------ bounds --------------------------------- *)

\* most files in one upload
MaxFiles == 2

\* most rows in one upload, over all its files
MaxRows == 3

(* ---------------------------- raw cells -------------------------------- *)

\* an empty field: read_csv yields NaN
Null == [kind |-> "null", val |-> 0]

\* a decimal-comma number, val in tenths: Comma(37) is the text "3,7"
Comma(n) == [kind |-> "comma", val |-> n]

\* a number written without a comma, val in tenths: Plain(900) is "90"
Plain(n) == [kind |-> "plain", val |-> n]

\* text that is no number
Text == [kind |-> "text", val |-> 0]

\* a float cell of a dataframe: NaN, or a number
NaN == [nan |-> TRUE, v |-> 0]

Num(x) == [nan |-> FALSE, v |-> x]

\* 15/03/2021 and 31/02/2021
GoodDate == [d |-> 15, m |-> 3]

BadDate == [d |-> 31, m |-> 2]

\* rows of the ingestion specification
IngestRows ==
    [Data : {GoodDate, BadDate},
     wind_speed : {Null, Comma(37), Text},
     wind_dir : {Null, Comma(900), Plain(900)}]

\* rows of the band specification: 0.97, 1.94, 5.05, 7.19, 11.66, 17.49,
\* 23.33 and 31.10 knots
BandRows ==
    [Data : {GoodDate},
     wind_speed : {Comma(5), Comma(10), Comma(26), Comma(37), Comma(60),
                   Comma(90), Comma(120), Comma(160)},
     wind_dir : {Comma(900)}]

\* the row sequences of length at most n over a set of rows
RowSeqs(S, n) == UNION {[1..k -> S] : k \in 0..n}

RECURSIVE TotalRows(_)
TotalRows(files) ==
    IF files = <<>> THEN 0
    ELSE Len(files[1].rows) + TotalRows(Tail(files))

(* ------------------------- process_csv_data ---------------------------- *)

\* the days of a month of 2021
DaysIn(m) ==
    IF m = 2 THEN 28 ELSE IF m \in {4, 6, 9, 11} THEN 30 ELSE 31

\* strptime with %d/%m/%Y accepts the date
StrptimeOk(date) ==
    /\ date.m \in 1..12
    /\ date.d \in 1..DaysIn(date.m)

\* read_csv: the rows of file k; src stands for the columns the pipeline
\* carries through untouched, which tell the rows apart
ReadCsv(file, k) ==
    [r \in 1..Len(file.rows) |->
        [src |-> <<k, r>>,
         Data |-> file.rows[r].Data,
         wind_speed |-> file.rows[r].wind_speed,
         wind_dir |-> file.rows[r].wind_dir]]

\* pd.to_datetime(..., format=...) raises unless every row parses
ToDatetimeOk(df) == \A r \in 1..Len(df) : StrptimeOk(df[r].Data)

\* Series.isnull
IsNull(cell) == cell.kind = "null"

\* line 27
NoWindSpeedData(df) ==
    Cardinality({r \in 1..Len(df) : IsNull(df[r].wind_speed)}) = Len(df)

\* line 28
NoWindDirData(df) ==
    Cardinality({r \in 1..Len(df) : IsNull(df[r].wind_dir)}) = Len(df)

\* line 30
FileWithoutData(df) == NoWindSpeedData(df) \/ NoWindDirData(df)

\* the column is read as strings: some cell is text that is no plain number
IsObjectColumn(cells) ==
    \E r \in 1..Len(cells) : cells[r].kind \in {"comma", "text"}

SpeedColumn(df) == [r \in 1..Len(df) |-> df[r].wind_speed]

DirColumn(df) == [r \in 1..Len(df) |-> df[r].wind_dir]

\* pd.to_numeric(cell.str.replace(',', '.'), errors='coerce')
ToNumeric(cell) ==
    IF cell.kind \in {"comma", "plain"} THEN Num(cell.val) ELSE NaN

\* the factor 1.94384, in units of 1e-5
KnotFactor == 194384

\* variant: the speed is kept in m/s
ToKnotsNoFactor(x) == IF x.nan THEN NaN ELSE Num(x.v * 100000)

\* x * 1.94384: tenths of m/s to millionths of a knot
ToKnots(x) == IF x.nan THEN NaN ELSE Num(x.v * KnotFactor)

\* lines 34 and 37
Normalize(df) ==
    [r \in 1..Len(df) |->
        [src |-> df[r].src,
         Data |-> df[r].Data,
         wind_speed |-> ToKnots(ToNumeric(df[r].wind_speed)),
         wind_dir |-> ToNumeric(df[r].wind_dir)]]

NotNa(row) == ~row.wind_speed.nan /\ ~row.wind_dir.nan

\* df.dropna(subset=['wind_speed', 'wind_dir'])
DropNa(df) == SelectSeq(df, NotNa)

\* variant: the later files come first
RECURSIVE ConcatReversed(_)
ConcatReversed(dfs) ==
    IF dfs = <<>> THEN <<>> ELSE ConcatReversed(Tail(dfs)) \o dfs[1]

\* pd.concat(all_dataframes, ignore_index=True)
RECURSIVE Concat(_)
Concat(dfs) ==
    IF dfs = <<>> THEN <<>> ELSE dfs[1] \o Concat(Tail(dfs))

\* the sentinel None, and a dataframe
NoneData == [none |-> TRUE, rows |-> <<>>]

Frame(rows) == [none |-> FALSE, rows |-> rows]

\* the loop of lines 16-43 from file k on, then lines 45-53
RECURSIVE ProcessLoop(_, _, _, _)
ProcessLoop(files, k, all_dataframes, files_without_data) ==
    IF k > Len(files)
    THEN IF Len(all_dataframes) = 0
         THEN [raised |-> FALSE, error |-> "none", data |-> NoneData,
               invalid |-> files_without_data]
         ELSE [raised |-> FALSE, error |-> "none",
               data |-> Frame(DropNa(Concat(all_dataframes))),
               invalid |-> files_without_data]
    ELSE LET df == ReadCsv(files[k], k)
         IN  IF ~ToDatetimeOk(df)
             THEN [raised |-> TRUE, error |-> "ValueError",
                   data |-> NoneData, invalid |-> <<>>]
             ELSE IF FileWithoutData(df)
             THEN ProcessLoop(files, k + 1, all_dataframes,
                              Append(files_without_data, files[k].name))
             ELSE IF ~IsObjectColumn(SpeedColumn(df))
                     \/ ~IsObjectColumn(DirColumn(df))
             THEN [raised |-> TRUE, error |-> "AttributeError",
                   data |-> NoneData, invalid |-> <<>>]
             ELSE ProcessLoop(files, k + 1,
                              Append(all_dataframes, DropNa(Normalize(df))),
                              files_without_data)

\* lines 10-53: raised with the exception, or the pair returned
process_csv_data(files) == ProcessLoop(files, 1, <<>>, <<>>)

(* ------------------------------ plotting ------------------------------- *)

\* speed_ranges of plot_combined_wind_roses; inf marks np.inf
speed_ranges_combined ==
    << [min |-> 1, max |-> 5, inf |-> FALSE, title |-> "Velocidade: 1-5 kt"],
       [min |-> 6, max |-> 10, inf |-> FALSE, title |-> "Velocidade: 6-10 kt"],
       [min |-> 11, max |-> 15, inf |-> FALSE, title |-> "Velocidade: 11-15 kt"],
       [min |-> 16, max |-> 20, inf |-> FALSE, title |-> "Velocidade: 16-20 kt"],
       [min |-> 21, max |-> 30, inf |-> FALSE, title |-> "Velocidade: 21-30 kt"],
       [min |-> 31, max |-> 0, inf |-> TRUE, title |-> "Velocidade: > 30 kt"] >>

\* speed_ranges of the main script
speed_ranges ==
    << [min |-> 1, max |-> 5, inf |-> FALSE, title |-> "Velocidade: 1-5 kt"],
       [min |-> 6, max |-> 10, inf |-> FALSE, title |-> "Velocidade: 6-10 kt"],
       [min |-> 11, max |-> 15, inf |-> FALSE, title |-> "Velocidade: 11-15 kt"],
       [min |-> 16, max |-> 20, inf |-> FALSE, title |-> "Velocidade: 16-20 kt"],
       [min |-> 21, max |-> 30, inf |-> FALSE, title |-> "Velocidade: 21-30 kt"],
       [min |-> 31, max |-> 0, inf |-> TRUE, title |-> "Velocidade: > 30 kt"] >>

\* variant: the mask without its lower limit
MaskCombinedNoLower(rows, b) ==
    {i \in 1..Len(rows) : b.inf \/ rows[i].wind_speed.v < b.max * 1000000}

\* the mask of line 83: the positions of the rows in the range
MaskCombined(rows, b) ==
    {i \in 1..Len(rows) :
        /\ rows[i].wind_speed.v >= b.min * 1000000
        /\ (b.inf \/ rows[i].wind_speed.v < b.max * 1000000)}

\* the mask of line 98
MaskSingle(rows, b) ==
    {i \in 1..Len(rows) :
        /\ rows[i].wind_speed.v >= b.min * 1000000
        /\ (b.inf \/ rows[i].wind_speed.v < b.max * 1000000)}

\* variant: the non-empty ranges moved up to positions 1..k
plot_combined_reflowed(rows) ==
    {[pos |-> Cardinality({j \in 1..i :
                              MaskCombined(rows, speed_ranges_combined[j]) # {}}),
      title |-> speed_ranges_combined[i].title,
      idx |-> MaskCombined(rows, speed_ranges_combined[i])] :
        i \in {j \in 1..Len(speed_ranges_combined) :
                  MaskCombined(rows, speed_ranges_combined[j]) # {}}}

\* the subplots of the combined figure: grid position, title, rows drawn
plot_combined_wind_roses(rows) ==
    {[pos |-> i,
      title |-> speed_ranges_combined[i].title,
      idx |-> MaskCombined(rows, speed_ranges_combined[i])] :
        i \in {j \in 1..Len(speed_ranges_combined) :
                  MaskCombined(rows, speed_ranges_combined[j]) # {}}}

\* variant: a figure also for an empty range
plot_single_always(rows, b) ==
    [none |-> FALSE, title |-> b.title, idx |-> MaskSingle(rows, b)]

\* the figure of one range, or None
plot_single_wind_rose(rows, b) ==
    IF MaskSingle(rows, b) = {}
    THEN [none |-> TRUE, title |-> b.title, idx |-> {}]
    ELSE [none |-> FALSE, title |-> b.title, idx |-> MaskSingle(rows, b)]

(* ---------------------------- main script ------------------------------ *)

\* line 125
NoValidData(invalid, uploaded) == Len(invalid) = Len(uploaded)

Init ==
    /\ uploaded_files = <<>>
    /\ pc = "upload"
    /\ error = "none"
    /\ combined_data = NoneData
    /\ invalid_files = <<>>
    /\ panels = {}
    /\ singles = <<>>
    /\ out = <<>>

\* st.file_uploader: one more file, named by its place in the upload
UploadFrom(S) ==
    /\ pc = "upload"
    /\ Len(uploaded_files) < MaxFiles
    /\ \E rows \in RowSeqs(S, MaxRows - TotalRows(uploaded_files)) :
          uploaded_files' =
              Append(uploaded_files,
                     [name |-> Len(uploaded_files) + 1, rows |-> rows])
    /\ UNCHANGED <<pc, error, combined_data, invalid_files, panels, singles, out>>

Upload == UploadFrom(IngestRows)

UploadBands == UploadFrom(BandRows)

\* lines 118-123: the button, then process_csv_data
Generate ==
    /\ pc = "upload"
    /\ Len(uploaded_files) > 0
    /\ LET res == process_csv_data(uploaded_files)
       IN  IF res.raised
           THEN /\ pc' = "crashed"
                /\ error' = res.error
                /\ UNCHANGED <<combined_data, invalid_files>>
           ELSE /\ pc' = "processed"
                /\ combined_data' = res.data
                /\ invalid_files' = res.invalid
                /\ UNCHANGED error
    /\ UNCHANGED <<uploaded_files, panels, singles, out>>

\* lines 125-132
CheckValid ==
    /\ pc = "processed"
    /\ IF NoValidData(invalid_files, uploaded_files)
       THEN /\ out' = Append(out, "No valid data found in the uploaded files.")
            /\ pc' = "stopped"
       ELSE /\ out' = IF Len(invalid_files) > 0
                      THEN Append(out, "Data not found in the following files")
                      ELSE out
            /\ pc' = "combined"
    /\ UNCHANGED <<uploaded_files, error, combined_data, invalid_files,
                   panels, singles>>

\* lines 133-143; indexing None raises TypeError
PlotCombined ==
    /\ pc = "combined"
    /\ IF combined_data.none
       THEN /\ pc' = "crashed"
            /\ error' = "TypeError"
            /\ UNCHANGED <<panels, out>>
       ELSE /\ panels' = plot_combined_wind_roses(combined_data.rows)
            /\ out' = Append(out, "combined figure")
            /\ pc' = "single"
            /\ UNCHANGED error
    /\ UNCHANGED <<uploaded_files, combined_data, invalid_files, singles>>

\* lines 156-173: one turn of the loop over speed_ranges
PlotSingle ==
    /\ pc = "single"
    /\ LET j == Len(singles) + 1
           fig == plot_single_wind_rose(combined_data.rows, speed_ranges[j])
       IN  /\ singles' = Append(singles, fig)
           /\ out' = Append(out, IF fig.none
                                 THEN "No data available for this speed range."
                                 ELSE "figure")
           /\ pc' = IF j = Len(speed_ranges) THEN "done" ELSE "single"
    /\ UNCHANGED <<uploaded_files, error, combined_data, invalid_files, panels>>

Request == Generate \/ CheckValid \/ PlotCombined \/ PlotSingle

Next == Upload \/ Request

Spec == Init /\ [][Next]_vars

NextBands == UploadBands \/ Request

SpecBands == Init /\ [][NextBands]_vars

(* ------------------------------ claims --------------------------------- *)

\* the six canonical bands as the specification lists them: lower limits,
\* upper limits of the five finite ones, display labels
CanonLo == <<1, 6, 11, 16, 21, 31>>

CanonHi == <<5, 10, 15, 20, 30>>

CanonTitle ==
    <<"Velocidade: 1-5 kt", "Velocidade: 6-10 kt", "Velocidade: 11-15 kt",
      "Velocidade: 16-20 kt", "Velocidade: 21-30 kt", "Velocidade: > 30 kt">>

\* v millionths of a knot lie in band j: min <= v < max
InCanon(v, j) ==
    /\ v >= CanonLo[j] * 1000000
    /\ (j = 6 \/ v < CanonHi[j] * 1000000)

\* the rows of the unified dataset
D == combined_data.rows

\* the positions of the dataset rows in band j
CanonSubset(j) == {i \in 1..Len(D) : InCanon(D[i].wind_speed.v, j)}

\* process_csv_data has returned (a run stopped by an exception has no
\* dataset and no list of files)
Returned == pc \in {"processed", "stopped", "combined", "single", "done"}

\* a rendering step is due or has run
Rendering == pc \in {"combined", "single", "done"}

RawRow(k, r) == uploaded_files[k].rows[r]

AllSpeedNull(k) ==
    \A r \in 1..Len(uploaded_files[k].rows) : RawRow(k, r).wind_speed.kind = "null"

AllDirNull(k) ==
    \A r \in 1..Len(uploaded_files[k].rows) : RawRow(k, r).wind_dir.kind = "null"

NonContributing(k) == AllSpeedNull(k) \/ AllDirNull(k)

\* both wind fields of the raw row are numbers
Usable(k, r) ==
    /\ RawRow(k, r).wind_speed.kind \in {"comma", "plain"}
    /\ RawRow(k, r).wind_dir.kind \in {"comma", "plain"}

Listed(k) ==
    \E n \in 1..Len(invalid_files) : invalid_files[n] = uploaded_files[k].name

LexLess(a, b) == a[1] < b[1] \/ (a[1] = b[1] /\ a[2] < b[2])

\* C1: in both plotting functions the subset of each canonical band is
\* exactly the dataset rows with min <= wind_speed < max; two band subsets
\* never share a row, and a row below 1 knot is in no band.
C1_BandSubsetsHalfOpen ==
    pc = "done" =>
        /\ \A j \in 1..6 :
              /\ singles[j].idx = CanonSubset(j)
              /\ \A p \in panels :
                    p.title = CanonTitle[j] => p.idx = CanonSubset(j)
        /\ \A j, k \in 1..6 :
              j # k => singles[j].idx \cap singles[k].idx = {}
        /\ \A p, q \in panels : p # q => p.idx \cap q.idx = {}
        /\ \A i \in 1..Len(D) :
              D[i].wind_speed.v < 1000000 =>
                  /\ \A j \in 1..6 : i \notin singles[j].idx
                  /\ \A p \in panels : i \notin p.idx

\* two bands are drawn and a row below 1 knot is in the dataset
C1_Witness ==
    /\ pc = "done"
    /\ Cardinality(panels) >= 2
    /\ \E i \in 1..Len(D) : D[i].wind_speed.v < 1000000

\* C2: every row of the unified dataset with wind_speed >= 1 knot is in
\* exactly one of the six band subsets; only a speed below 1 knot leaves a
\* row outside every band.
C2_ExactlyOneBand ==
    pc = "done" =>
        \A i \in 1..Len(D) :
            D[i].wind_speed.v >= 1000000 =>
                /\ Cardinality({j \in 1..6 : i \in singles[j].idx}) = 1
                /\ Cardinality({p \in panels : i \in p.idx}) = 1

\* C3: once the button is pressed, a file whose wind_speed is empty in
\* every row, or whose wind_dir is empty in every row, is listed in
\* files_without_data and gives the unified dataset no row, and the usable
\* rows of the other files of the upload are in the dataset.
C3_EmptyFileExcluded ==
    pc # "upload" =>
        \A k \in 1..Len(uploaded_files) :
            NonContributing(k) =>
                /\ Listed(k)
                /\ \A i \in 1..Len(D) : D[i].src[1] # k
                /\ \A k2 \in 1..Len(uploaded_files) :
                      ~NonContributing(k2) =>
                          \A r \in 1..Len(uploaded_files[k2].rows) :
                              Usable(k2, r) =>
                                  \E i \in 1..Len(D) : D[i].src = <<k2, r>>

\* C4: when every uploaded file is non-contributing, process_csv_data
\* returns None with the names of all the files, the request writes the
\* "no valid data" message and stops with no chart; no plotting function
\* is ever given None.
C4_AllEmptyStops ==
    /\ (pc # "upload" /\ \A k \in 1..Len(uploaded_files) : NonContributing(k)) =>
          /\ error = "none"
          /\ combined_data.none
          /\ invalid_files =
                [k \in 1..Len(uploaded_files) |-> uploaded_files[k].name]
          /\ pc \in {"processed", "stopped"}
          /\ panels = {}
          /\ singles = <<>>
          /\ pc = "stopped" =>
                out = <<"No valid data found in the uploaded files.">>
    /\ Rendering => ~combined_data.none
    /\ error # "TypeError"

\* C5: the rows of the unified dataset stand in upload order of their
\* files and, within a file, in their original order; every usable row of
\* a contributing file is there, also when another row has the same
\* content.
C5_ConcatenationOrder ==
    (Returned /\ ~combined_data.none) =>
        /\ \A i, j \in 1..Len(D) : i < j => LexLess(D[i].src, D[j].src)
        /\ \A k \in 1..Len(uploaded_files) :
              ~NonContributing(k) =>
                  \A r \in 1..Len(uploaded_files[k].rows) :
                      Usable(k, r) =>
                          \E i \in 1..Len(D) : D[i].src = <<k, r>>

\* rows of file 1 and of file 2 in one dataset, two of them from one file
C5_Witness ==
    /\ pc = "processed"
    /\ Len(D) = 3
    /\ D[1].src[1] = 1
    /\ D[3].src[1] = 2

\* the factor the specification names, 1.9438444924406, as
\* (hi * 10^7 + lo) * 10^-13
SpecFactor == [hi |-> 1943844, lo |-> 4924406]

\* n tenths of m/s times SpecFactor, in units of 1e-7 knot, rounded down
TimesSpecFactor(n) == n * SpecFactor.hi + (n * SpecFactor.lo) \div 10000000

\* the raw wind speed of a dataset row, in tenths of m/s
RawSpeed(row) == RawRow(row.src[1], row.src[2]).wind_speed.val

\* C6 as stated: the stored wind speed is the m/s value times
\* 1.9438444924406 (here: to within 1e-7 knot).
C6_SpecFactorApplied ==
    Returned =>
        \A i \in 1..Len(D) :
            /\ D[i].wind_speed.v * 10 - TimesSpecFactor(RawSpeed(D[i])) <= 1
            /\ TimesSpecFactor(RawSpeed(D[i])) - D[i].wind_speed.v * 10 <= 1

\* C6 amended: the stored wind speed is the m/s value times 1.94384.
C6_CodeFactorApplied ==
    Returned =>
        \A i \in 1..Len(D) :
            D[i].wind_speed.v * 10 = RawSpeed(D[i]) * 1943840

\* the row "3,7" m/s is stored as 7.192208 knots
C6_Witness ==
    /\ pc = "processed"
    /\ \E i \in 1..Len(D) :
          RawSpeed(D[i]) = 37 /\ D[i].wind_speed.v = 7192208

\* C7: a row whose date does not parse is dropped and nothing else is
\* lost: no exception leaves process_csv_data for it, and the usable rows
\* with a good date of the contributing files are in the unified dataset.
C7_BadTimestampNotFatal ==
    pc # "upload" =>
        /\ error # "ValueError"
        /\ error = "none" =>
              \A k \in 1..Len(uploaded_files) :
                  ~NonContributing(k) =>
                      \A r \in 1..Len(uploaded_files[k].rows) :
                          (Usable(k, r) /\ RawRow(k, r).Data = GoodDate) =>
                              \E i \in 1..Len(D) : D[i].src = <<k, r>>

\* C8: a chart is made for a band exactly when the band has a row, in the
\* combined figure and in the single figures alike.
C8_ChartIffNonEmpty ==
    pc = "done" =>
        /\ \A j \in 1..6 :
              /\ (\E p \in panels : p.title = CanonTitle[j])
                    <=> (CanonSubset(j) # {})
              /\ (~singles[j].none) <=> (CanonSubset(j) # {})
              /\ singles[j].title = CanonTitle[j]
        /\ Cardinality(panels) =
              Cardinality({j \in 1..6 : CanonSubset(j) # {}})

\* one row of 7.19 knots: one panel, for 6-10, and one single figure
C8_Witness ==
    /\ pc = "done"
    /\ Len(D) = 1
    /\ D[1].wind_speed.v = 7192208
    /\ \A p \in panels : p.title = "Velocidade: 6-10 kt"
    /\ Cardinality(panels) = 1
    /\ {j \in 1..6 : ~singles[j].none} = {2}

\* C9 as stated: the panels of the combined figure fill the grid
\* positions 1..k, k the number of non-empty bands.
C9_PanelsReflowed ==
    pc \in {"single", "done"} =>
        {p.pos : p \in panels} = 1..Cardinality(panels)

\* C9 amended: each non-empty band is drawn at the grid position of its
\* place in the canonical order; the position of an empty band stays blank.
C9_PanelsAtBandIndex ==
    pc \in {"single", "done"} =>
        /\ \A p \in panels :
              \E j \in 1..6 : p.title = CanonTitle[j] /\ p.pos = j
        /\ \A j \in 1..6 :
              CanonSubset(j) = {} => \A p \in panels : p.pos # j

\* bands 2 and 6 alone have rows: positions 2 and 6 are drawn
C9_Witness ==
    /\ pc = "done"
    /\ {p.pos : p \in panels} = {2, 6}

\* C10: a file not listed in files_without_data gives the unified dataset
\* a row, and the dataset handed to the plotting functions has a row.
C10_ContributingYieldsRows ==
    /\ Returned =>
          \A k \in 1..Len(uploaded_files) :
              ~Listed(k) => \E i \in 1..Len(D) : D[i].src[1] = k
    /\ Rendering => Len(D) >= 1

====
